---- MODULE Spec2Model ----
(***************************************************************************)
(* Request-admission layer of the cccatalog API.                           *)
(*                                                                         *)
(*   views.py             SearchImages.get  (pagination repair, deep       *)
(*                        pagination, reported page count)                 *)
(*   views/site_views.py  Register.post, CheckRates.get and the throttle   *)
(*                        classes in front of them                         *)
(*                                                                         *)
(* Query-string values are strings: they are modelled as sequences of      *)
(* one-character strings and converted with int() as Python converts them. *)
(***************************************************************************)
EXTENDS Integers, Sequences, FiniteSets, TLC

VARIABLES
    request,        \* search: the query parameters of the request being served
    response,       \* search: the response of SearchImages.get
    indexCalls,     \* search: number of queries sent to the index for the request
    pc,             \* search: "received" | "done"
    now,            \* site: the clock, in seconds
    ticks,          \* site: number of clock advances so far
    cache,          \* site: django cache, key -> list of request timestamps
    applications,   \* site: number of ThrottledApplication rows
    registrations,  \* site: number of saved registration rows
    site_response,  \* site: the response of the last request to a site view
    regLog,         \* site: per requester, time and status of its registration requests
    procs,          \* site: the requests in flight, each with its position
    lock            \* site: the throttle keys whose window is being updated

vars == <<request, response, indexCalls, pc, now, ticks, cache, applications,
          registrations, site_response, regLog, procs, lock>>

searchVars == <<request, response, indexCalls, pc>>
siteVars == <<now, ticks, cache, applications, registrations, site_response, regLog,
              procs, lock>>

----------------------------------------------------------------------------
(* Bounds of the model *)

\* numeric pagesize parameters 0..MaxPageSizeParam are tried
MaxPageSizeParam == 501
\* numeric page parameters 0..MaxPageParam are tried, besides a few deep ones
MaxPageParam == 13

----------------------------------------------------------------------------
(* Strings and int() *)

Digits == <<"0", "1", "2", "3", "4", "5", "6", "7", "8", "9">>

DigitChars == {Digits[i] : i \in 1..10}

DigitVal(c) == CHOOSE d \in 0..9 : Digits[d + 1] = c

RECURSIVE Decimal(_)
\* str(n) for n >= 0: how a client writes a number into the query string
Decimal(n) == IF n < 10 THEN <<Digits[n + 1]>>
              ELSE Decimal(n \div 10) \o <<Digits[(n % 10) + 1]>>

SignChars == {"-", "+"}

Unsigned(s) == IF Len(s) > 0 /\ s[1] \in SignChars THEN Tail(s) ELSE s

\* whether int(s) returns (TRUE) or raises ValueError (FALSE)
IsIntLiteral(s) ==
    /\ Len(Unsigned(s)) > 0
    /\ \A i \in 1..Len(Unsigned(s)) : Unsigned(s)[i] \in DigitChars

RECURSIVE DigitsValue(_)
DigitsValue(s) == IF s = <<>> THEN 0
                  ELSE 10 * DigitsValue(SubSeq(s, 1, Len(s) - 1)) + DigitVal(s[Len(s)])

\* int(s) for a string on which int() does not raise
int(s) == IF Len(s) > 0 /\ s[1] = "-" THEN 0 - DigitsValue(Unsigned(s))
          ELSE DigitsValue(Unsigned(s))

\* request.query_params.get(name): None (absent) or the string
Absent == [present |-> FALSE, text |-> <<>>]
Given(s) == [present |-> TRUE, text |-> s]

\* Python truthiness of query_params.get(...): None and '' are falsy
Falsy(p) == ~p.present \/ p.text = <<>>

----------------------------------------------------------------------------
(* SearchImages.get *)

MaxDepth == 5000
MaxPageSize == 500
DefaultPageSize == 20

\* search_controller.parse_search_query: the error messages of a query
\* (unknown parameters are named one by one; a query needs a search term)
parse_search_query(query) ==
    (IF "foo" \in query THEN <<"Unknown parameter foo.">> ELSE <<>>)
    \o (IF "q" \in query THEN <<>> ELSE <<"No search term.">>)

\* lines 25-29: does int(page) raise?
PageRaises(req) == ~Falsy(req.page) /\ ~IsIntLiteral(req.page.text)

\* lines 25-29
CleanPage(req) ==
    IF Falsy(req.page) \/ int(req.page.text) < 1 THEN 1 ELSE int(req.page.text)

\* lines 30-34: does int(page_size) raise?
PageSizeRaises(req) == ~Falsy(req.pagesize) /\ ~IsIntLiteral(req.pagesize.text)

\* lines 30-34
CleanPageSize(req) ==
    IF \/ Falsy(req.pagesize)
       \/ int(req.pagesize.text) > MaxPageSize
       \/ int(req.pagesize.text) < 1
    THEN DefaultPageSize
    ELSE int(req.pagesize.text)

\* search_controller.search raises ValueError, before querying the index,
\* when the offset of the page is beyond the depth cap
DeepPagination(page, page_size) == (page - 1) * page_size > MaxDepth

\* line 53: int(total / page_size), total >= 0
natural_page_count(total, page_size) == total \div page_size

\* the cap without the rounding term
last_allowed_page_truncated(page_size) == MaxDepth \div page_size

\* line 54: int((5000 + page_size / 2) / page_size); page_size / 2 is a true
\* division, so the value is floor((10000 + page_size) / (2 * page_size))
last_allowed_page(page_size) == (2 * MaxDepth + page_size) \div (2 * page_size)

Min(a, b) == IF a < b THEN a ELSE b

\* the page count without the cap
page_count_uncapped(total, page_size) == natural_page_count(total, page_size)

\* line 55
page_count(total, page_size) ==
    Min(natural_page_count(total, page_size), last_allowed_page(page_size))

NoResponse == [status |-> 0, error |-> "", result_count |-> 0, page_count |-> 0,
               page |-> 0, page_size |-> 0]

ErrorResponse(st, msg) == [NoResponse EXCEPT !.status = st, !.error = msg]

\* the ValueError of search() left uncaught
DeepPaginationUncaught == ErrorResponse(500, "ValueError")

\* lines 41-47
DeepPaginationResponse == ErrorResponse(400, "Deep pagination is not allowed.")

\* lines 16-22
ValidationResponse == ErrorResponse(400, "validation_error")

\* an exception nothing catches: the framework answers 500
ServerErrorResponse == ErrorResponse(500, "ValueError")

\* lines 57-62
SearchResponse(total, page, page_size) ==
    [status |-> 200, error |-> "", result_count |-> total,
     page_count |-> page_count(total, page_size),
     page |-> page, page_size |-> page_size]

\* lines 14-22: the query is rejected by the validator
GetInvalidQuery ==
    /\ pc = "received"
    /\ parse_search_query(request.query) # <<>>
    /\ response' = ValidationResponse
    /\ pc' = "done"
    /\ UNCHANGED <<request, indexCalls>>
    /\ UNCHANGED siteVars

\* lines 25-34: int() raises ValueError outside the try block
GetBadNumber ==
    /\ pc = "received"
    /\ parse_search_query(request.query) = <<>>
    /\ PageRaises(request) \/ PageSizeRaises(request)
    /\ response' = ServerErrorResponse
    /\ pc' = "done"
    /\ UNCHANGED <<request, indexCalls>>
    /\ UNCHANGED siteVars

\* lines 36-47: search() raises ValueError
GetDeepPagination ==
    /\ pc = "received"
    /\ parse_search_query(request.query) = <<>>
    /\ ~PageRaises(request) /\ ~PageSizeRaises(request)
    /\ DeepPagination(CleanPage(request), CleanPageSize(request))
    /\ response' = DeepPaginationResponse
    /\ pc' = "done"
    /\ UNCHANGED <<request, indexCalls>>
    /\ UNCHANGED siteVars

TotalHits == {0, 1, 19, 20, 21, 4999, 5000, 5001, 5010, 9999, 10000, 3000000}

\* lines 36-62: the index is queried and reports total hits
GetResults ==
    /\ pc = "received"
    /\ parse_search_query(request.query) = <<>>
    /\ ~PageRaises(request) /\ ~PageSizeRaises(request)
    /\ ~DeepPagination(CleanPage(request), CleanPageSize(request))
    /\ \E total \in TotalHits :
          response' = SearchResponse(total, CleanPage(request), CleanPageSize(request))
    /\ indexCalls' = indexCalls + 1
    /\ pc' = "done"
    /\ UNCHANGED request
    /\ UNCHANGED siteVars

NotNumbers == {<<>>, <<"a", "b", "c">>, <<"2", ".", "5">>, <<"-", "1">>}

PageSizeParams ==
    {Absent} \cup {Given(Decimal(n)) : n \in 0..MaxPageSizeParam}
             \cup {Given(s) : s \in NotNumbers}

PageParams ==
    {Absent} \cup {Given(Decimal(n)) : n \in (0..MaxPageParam) \cup {251, 252, 5001, 5002}}
             \cup {Given(s) : s \in NotNumbers}

Queries == {{"q"}, {}, {"q", "foo"}}

Requests == [query : Queries, page : PageParams, pagesize : PageSizeParams]

----------------------------------------------------------------------------
(* The throttle windows kept in the cache *)

\* the clock advances at most MaxTicks times
MaxTicks == 2
\* configured ceilings of the standard tier (the enhanced tier allows one more)
BurstCeiling == 1
SustainedCeiling == 2
\* registration requests tried per requester
MaxRegistrationRequests == 4
\* concurrent requests
NumProcs == 4

\* horizons, in seconds
Second == 1
Minute == 60
Day == 86400
\* the ceiling of the registration throttle
RegistrationsPerDay == 3

\* clock advances: 1 s, 59 s (with 1 s: a minute), 86399 s (with 1 s: a day)
Steps == {1, 59, 86399}

Requesters == {"ip1"}

\* a JSON number or null
Null == [null |-> TRUE, value |-> 0]
Num(n) == [null |-> FALSE, value |-> n]

\* cache.get(key): None when the key is not in the cache
cache_get(c, key) ==
    IF key \in DOMAIN c THEN [found |-> TRUE, value |-> c[key]]
    ELSE [found |-> FALSE, value |-> <<>>]

\* the stored list, [] when there is none
History(c, key) == cache_get(c, key).value

\* line 188: 'throttle_{scope}_{client_id}'.format(...)
throttle_key(scope, client_id) == "throttle_" \o scope \o "_" \o client_id

\* the timestamps of a stored list that are inside the horizon at time t
Live(history, t, horizon) == SelectSeq(history, LAMBDA x : t - x < horizon)

\* lines 189-197
StandardSustainedScope == "oauth2_client_credentials_sustained"

\* the burst key built with the scope of the other tier
StandardBurstScopeOfOtherTier == "enhanced_oauth2_client_credentials_burst"

StandardBurstScope == "oauth2_client_credentials_burst"

\* lines 198-206
EnhancedSustainedScope == "enhanced_oauth2_client_credentials_sustained"
EnhancedBurstScope == "enhanced_oauth2_client_credentials_burst"

\* the throttle classes: scope, ceiling and horizon of each
ThrottleRate(class) ==
    CASE class = "ThreePerDay" ->
            [scope |-> "three_per_day", ceiling |-> RegistrationsPerDay, horizon |-> Day]
      [] class = "OnePerSecond" ->
            [scope |-> "one_per_second", ceiling |-> 1, horizon |-> Second]
      [] class = "standard_burst" ->
            [scope |-> "oauth2_client_credentials_burst",
             ceiling |-> BurstCeiling, horizon |-> Minute]
      [] class = "standard_sustained" ->
            [scope |-> "oauth2_client_credentials_sustained",
             ceiling |-> SustainedCeiling, horizon |-> Day]
      [] class = "enhanced_burst" ->
            [scope |-> "enhanced_oauth2_client_credentials_burst",
             ceiling |-> BurstCeiling + 1, horizon |-> Minute]
      [] class = "enhanced_sustained" ->
            [scope |-> "enhanced_oauth2_client_credentials_sustained",
             ceiling |-> SustainedCeiling + 1, horizon |-> Day]

AnonClasses == {"ThreePerDay", "OnePerSecond"}

Tokens == {"tokA", "tokB", "tokC", "tokX"}

\* request.auth: None (written "") or the access token
Auths == {""} \cup Tokens

\* oauth2_helper.get_token_info: (client_id, rate_limit_model) of a token,
\* (None, None), written "", when the token resolves to no client
get_token_info(token) ==
    CASE token = "tokA" -> [client_id |-> "c1", rate_limit_model |-> "standard"]
      [] token = "tokB" -> [client_id |-> "c2", rate_limit_model |-> "enhanced"]
      [] token = "tokC" -> [client_id |-> "c3", rate_limit_model |-> "premium"]
      [] OTHER -> [client_id |-> "", rate_limit_model |-> ""]

\* whom a throttle class counts: the requester, or the client of the token
ThrottleIdent(class, r, auth) ==
    IF class \in AnonClasses THEN r ELSE get_token_info(auth).client_id

ThrottleKey(class, r, auth) ==
    throttle_key(ThrottleRate(class).scope, ThrottleIdent(class, r, auth))

ThrottleKeys(classes, r, auth) == {ThrottleKey(class, r, auth) : class \in classes}

\* admit: the timestamps older than the horizon are expired, the rest counted
Admit(c, class, r, auth, t) ==
    Len(Live(History(c, ThrottleKey(class, r, auth)), t, ThrottleRate(class).horizon))
        < ThrottleRate(class).ceiling

\* record: the live timestamps and the new one are stored back
Record(c, class, r, auth, t) ==
    (ThrottleKey(class, r, auth) :>
        Append(Live(History(c, ThrottleKey(class, r, auth)), t,
                    ThrottleRate(class).horizon), t)) @@ c

AdmitAll(c, classes, r, auth, t) == \A class \in classes : Admit(c, class, r, auth, t)

RECURSIVE RecordAll(_, _, _, _, _)
RecordAll(c, classes, r, auth, t) ==
    IF classes = {} THEN c
    ELSE LET class == CHOOSE x \in classes : TRUE
         IN  RecordAll(Record(c, class, r, auth, t), classes \ {class}, r, auth, t)

NoSiteResponse ==
    [op |-> "none", status |-> 0, data |-> "", auth |-> "",
     requests_this_minute |-> Null, requests_today |-> Null, rate_limit_model |-> ""]

SiteError(op, st, msg, auth) ==
    [NoSiteResponse EXCEPT !.op = op, !.status = st, !.data = msg, !.auth = auth]

\* the framework's answer when a throttle class denies the request
ThrottledResponse(op, auth) == SiteError(op, 429, "throttled", auth)

Tick ==
    /\ ticks < MaxTicks
    /\ \E d \in Steps : now' = now + d
    /\ ticks' = ticks + 1
    /\ UNCHANGED <<cache, applications, registrations, site_response, regLog, procs, lock>>
    /\ UNCHANGED searchVars

----------------------------------------------------------------------------
(* The metered API requests of a client: the quota ledger *)

LedgerClasses(tier) ==
    CASE tier = "standard" -> {"standard_burst", "standard_sustained"}
      [] tier = "enhanced" -> {"enhanced_burst", "enhanced_sustained"}
      [] OTHER -> {}

ApiRequest(r, auth) ==
    LET info == get_token_info(auth)
        classes == LedgerClasses(info.rate_limit_model)
    IN  /\ info.client_id # ""
        /\ IF classes = {}
           THEN /\ site_response' = SiteError("api", 500, "configuration", "")
                /\ UNCHANGED cache
           ELSE IF AdmitAll(cache, classes, r, auth, now)
           THEN /\ cache' = RecordAll(cache, classes, r, auth, now)
                /\ site_response' = SiteError("api", 200, "", "")
           ELSE /\ site_response' = ThrottledResponse("api", "")
                /\ UNCHANGED cache
        /\ UNCHANGED <<now, ticks, applications, registrations, regLog, procs, lock>>
        /\ UNCHANGED searchVars

ApiRequests == \E r \in Requesters, auth \in Tokens : ApiRequest(r, auth)

----------------------------------------------------------------------------
(* CheckRates *)

\* the view left with the throttles of the metered API
CheckRatesDefaultThrottleClasses ==
    {"OnePerSecond", "standard_burst", "standard_sustained"}

\* line 170
CheckRatesThrottleClasses == {"OnePerSecond"}

\* lines 210-215: len(list) if list else None
RequestCount(c, key) ==
    IF cache_get(c, key).found /\ cache_get(c, key).value # <<>>
    THEN Num(Len(cache_get(c, key).value))
    ELSE Null

\* lines 210-222
KeyInfo(c, sustained_throttle_key, burst_throttle_key, throttle_type, auth) ==
    [op |-> "key_info", status |-> 200, data |-> "", auth |-> auth,
     requests_this_minute |-> RequestCount(c, burst_throttle_key),
     requests_today |-> RequestCount(c, sustained_throttle_key),
     rate_limit_model |-> throttle_type]

\* lines 177-222
CheckRatesGet(c, auth) ==
    IF auth = "" THEN SiteError("key_info", 403, "Forbidden", auth)
    ELSE LET client_id == get_token_info(auth).client_id
             throttle_type == get_token_info(auth).rate_limit_model
         IN  IF client_id = "" THEN SiteError("key_info", 403, "Forbidden", auth)
             ELSE IF throttle_type = "standard"
             THEN KeyInfo(c, throttle_key(StandardSustainedScope, client_id),
                          throttle_key(StandardBurstScope, client_id),
                          throttle_type, auth)
             ELSE IF throttle_type = "enhanced"
             THEN KeyInfo(c, throttle_key(EnhancedSustainedScope, client_id),
                          throttle_key(EnhancedBurstScope, client_id),
                          throttle_type, auth)
             ELSE SiteError("key_info", 500, "Unknown API key rate limit type", auth)

\* a quota-status request of a requester: the throttle of the view, then get
CheckRates(r, auth) ==
    /\ IF AdmitAll(cache, CheckRatesThrottleClasses, r, auth, now)
       THEN /\ cache' = RecordAll(cache, CheckRatesThrottleClasses, r, auth, now)
            /\ site_response' = CheckRatesGet(cache', auth)
       ELSE /\ site_response' = ThrottledResponse("key_info", auth)
            /\ UNCHANGED cache
    /\ UNCHANGED <<now, ticks, applications, registrations, regLog, procs, lock>>
    /\ UNCHANGED searchVars

CheckRatesRequests == \E r \in Requesters, auth \in Auths : CheckRates(r, auth)

----------------------------------------------------------------------------
(* Register *)

\* the view without a throttle
RegisterNoThrottleClasses == {}

\* line 128
RegisterThrottleClasses == {"ThreePerDay"}

\* lines 156-163
Created == SiteError("register", 201, "credentials", "")

\* lines 138-142
Invalid == SiteError("register", 400, "errors", "")

\* a registration request of a requester: the throttle of the view, then post
\* (lines 135-163); valid is serialized.is_valid()
Register(r, valid) ==
    /\ Len(regLog[r]) < MaxRegistrationRequests
    /\ IF ~AdmitAll(cache, RegisterThrottleClasses, r, "", now)
       THEN /\ site_response' = ThrottledResponse("register", "")
            /\ UNCHANGED <<cache, applications, registrations>>
       ELSE /\ cache' = RecordAll(cache, RegisterThrottleClasses, r, "", now)
            /\ IF valid
               THEN /\ registrations' = registrations + 1
                    /\ applications' = applications + 1
                    /\ site_response' = Created
               ELSE /\ site_response' = Invalid
                    /\ UNCHANGED <<applications, registrations>>
    /\ regLog' = [regLog EXCEPT
                    ![r] = Append(@, [time |-> now, status |-> site_response'.status])]
    /\ UNCHANGED <<now, ticks, procs, lock>>
    /\ UNCHANGED searchVars

Registers == \E r \in Requesters, valid \in BOOLEAN : Register(r, valid)

----------------------------------------------------------------------------
(* Concurrent requests of one requester *)

Procs == 1..NumProcs

Views == {"register", "key_info"}

ViewThrottleClasses(view) ==
    IF view = "register" THEN RegisterThrottleClasses ELSE CheckRatesThrottleClasses

ProcKeys(p) == ThrottleKeys(ViewThrottleClasses(procs[p].view), "ip1", procs[p].auth)

SetPc(p, to) == [procs EXCEPT ![p].pc = to]

\* the throttle admits the request; its windows stay locked until recorded
GateAdmit(p) ==
    /\ procs[p].pc = "new"
    /\ ProcKeys(p) \cap lock = {}
    /\ AdmitAll(cache, ViewThrottleClasses(procs[p].view), "ip1", procs[p].auth, now)
    /\ lock' = lock \cup ProcKeys(p)
    /\ procs' = SetPc(p, "admitted")
    /\ UNCHANGED <<now, ticks, cache, applications, registrations, site_response, regLog>>
    /\ UNCHANGED searchVars

\* the throttle denies the request
GateDeny(p) ==
    /\ procs[p].pc = "new"
    /\ ProcKeys(p) \cap lock = {}
    /\ ~AdmitAll(cache, ViewThrottleClasses(procs[p].view), "ip1", procs[p].auth, now)
    /\ procs' = SetPc(p, "throttled")
    /\ site_response' = ThrottledResponse(procs[p].view, procs[p].auth)
    /\ UNCHANGED <<now, ticks, cache, applications, registrations, regLog, lock>>
    /\ UNCHANGED searchVars

\* the admitted request is recorded and the windows are released
GateRecord(p) ==
    /\ procs[p].pc = "admitted"
    /\ cache' = RecordAll(cache, ViewThrottleClasses(procs[p].view), "ip1",
                          procs[p].auth, now)
    /\ lock' = lock \ ProcKeys(p)
    /\ procs' = SetPc(p, "handler")
    /\ UNCHANGED <<now, ticks, applications, registrations, site_response, regLog>>
    /\ UNCHANGED searchVars

\* Register.post of an admitted request
HandleRegister(p) ==
    /\ procs[p].pc = "handler"
    /\ procs[p].view = "register"
    /\ \E valid \in BOOLEAN :
          IF valid
          THEN /\ registrations' = registrations + 1
               /\ applications' = applications + 1
               /\ site_response' = Created
          ELSE /\ site_response' = Invalid
               /\ UNCHANGED <<applications, registrations>>
    /\ procs' = SetPc(p, "done")
    /\ UNCHANGED <<now, ticks, cache, regLog, lock>>
    /\ UNCHANGED searchVars

\* CheckRates.get of an admitted request
HandleCheckRates(p) ==
    /\ procs[p].pc = "handler"
    /\ procs[p].view = "key_info"
    /\ site_response' = CheckRatesGet(cache, procs[p].auth)
    /\ procs' = SetPc(p, "done")
    /\ UNCHANGED <<now, ticks, cache, applications, registrations, regLog, lock>>
    /\ UNCHANGED searchVars

----------------------------------------------------------------------------
(* Specifications *)

SiteInit ==
    /\ now = 0
    /\ ticks = 0
    /\ cache = <<>>
    /\ applications = 0
    /\ registrations = 0
    /\ site_response = NoSiteResponse
    /\ regLog = [r \in Requesters |-> <<>>]
    /\ procs = <<>>
    /\ lock = {}

SearchIdle ==
    /\ request = [query |-> {}, page |-> Absent, pagesize |-> Absent]
    /\ response = NoResponse
    /\ indexCalls = 0
    /\ pc = "done"

QuotaInit == SearchIdle /\ SiteInit

QuotaNext == Tick \/ ApiRequests \/ CheckRatesRequests

QuotaSpec == QuotaInit /\ [][QuotaNext]_vars

RegisterInit == SearchIdle /\ SiteInit

RegisterNext == Tick \/ Registers

RegisterSpec == RegisterInit /\ [][RegisterNext]_vars

ConcurrentInit ==
    /\ SearchIdle
    /\ now = 0
    /\ ticks = 0
    /\ cache = <<>>
    /\ applications = 0
    /\ registrations = 0
    /\ site_response = NoSiteResponse
    /\ regLog = [r \in Requesters |-> <<>>]
    /\ procs \in [Procs -> [pc : {"new"}, view : Views, auth : {"tokA"}]]
    /\ lock = {}

ConcurrentNext ==
    \E p \in Procs :
        \/ GateAdmit(p)
        \/ GateDeny(p)
        \/ GateRecord(p)
        \/ HandleRegister(p)
        \/ HandleCheckRates(p)

ConcurrentSpec == ConcurrentInit /\ [][ConcurrentNext]_vars

SearchInit ==
    /\ request \in Requests
    /\ response = NoResponse
    /\ indexCalls = 0
    /\ pc = "received"
    /\ SiteInit

SearchNext == GetInvalidQuery \/ GetBadNumber \/ GetDeepPagination \/ GetResults

SearchSpec == SearchInit /\ [][SearchNext]_vars

----------------------------------------------------------------------------
(* Properties of SearchImages.get *)

Served == pc = "done" /\ response.status = 200

\* k = floor(num / den), stated without division
IsFloor(k, num, den) == k * den <= num /\ num < (k + 1) * den

\* C1: for every page size in [1,500] and every total reported by the index,
\* the page_count of a served search is
\* min(floor(total / pageSize), floor((5000 + pageSize/2) / pageSize)):
\* never negative, never above the cap, and 250 for pageSize 20, total 10000.
C1_PageCountIsCappedFloor ==
    Served =>
        LET ps == response.page_size
            total == response.result_count
            k == response.page_count
        IN  /\ ps \in 1..500
            /\ k >= 0
            /\ 2 * k * ps <= 10000 + ps
            /\ k * ps <= total
            /\ IsFloor(k, total, ps) \/ IsFloor(k, 10000 + ps, 2 * ps)
            /\ (ps = 20 /\ total = 10000) => k = 250

C1_Witness ==
    /\ Served
    /\ response.page_size = 20
    /\ response.result_count = 10000
    /\ response.page_count = 250

ValidNumbers(req) ==
    /\ parse_search_query(req.query) = <<>>
    /\ ~PageRaises(req)
    /\ ~PageSizeRaises(req)

\* C2: a validated request whose offset (page-1)*pageSize exceeds 5000 is
\* answered 400 'Deep pagination is not allowed.' and the index is not queried.
C2_DeepPaginationRejected ==
    (pc = "done" /\ ValidNumbers(request)
        /\ (CleanPage(request) - 1) * CleanPageSize(request) > 5000)
    => /\ response.status = 400
       /\ response.error = "Deep pagination is not allowed."
       /\ indexCalls = 0

C2_Witness ==
    /\ pc = "done"
    /\ request = [query |-> {"q"}, page |-> Given(<<"1", "2">>),
                  pagesize |-> Given(<<"5", "0", "0">>)]
    /\ response.status = 400
    /\ response.error = "Deep pagination is not allowed."
    /\ indexCalls = 0

\* the page size the claim expects for a raw pagesize parameter
ExpectedPageSize(p) ==
    IF p.present /\ IsIntLiteral(p.text) /\ int(p.text) \in 1..500
    THEN int(p.text) ELSE 20

\* C3: whatever the raw pagesize of an otherwise valid request (absent,
\* non-numeric, out of [1,500]), the request proceeds with page size 20, and
\* with the given value when it is a number in [1,500]; pagesize never causes
\* an error response.
C3_PageSizeAlwaysRepaired ==
    (pc = "done" /\ parse_search_query(request.query) = <<>> /\ ~PageRaises(request))
    => /\ response.status # 500
       /\ response.status = 200 => response.page_size = ExpectedPageSize(request.pagesize)

\* C10: a served search never advertises a page it would refuse: every page
\* 1..page_count has offset (p-1)*pageSize <= 5000 and passes the deep
\* pagination check with the same page size.
C10_AdvertisedPagesServable ==
    Served =>
        \A p \in 1..response.page_count :
            /\ (p - 1) * response.page_size <= 5000
            /\ ~DeepPagination(p, response.page_size)

C10_Witness ==
    /\ Served
    /\ response.page_size = 500
    /\ response.result_count = 3000000
    /\ response.page_count = 10

----------------------------------------------------------------------------
(* Properties of CheckRates *)

\* the key of a window, written out
BurstKeyOf(tier, client) ==
    IF tier = "standard" THEN "throttle_oauth2_client_credentials_burst_" \o client
    ELSE "throttle_enhanced_oauth2_client_credentials_burst_" \o client

SustainedKeyOf(tier, client) ==
    IF tier = "standard" THEN "throttle_oauth2_client_credentials_sustained_" \o client
    ELSE "throttle_enhanced_oauth2_client_credentials_sustained_" \o client

Clients == {"c1", "c2", "c3"}

WindowKeys ==
    {BurstKeyOf(tier, client) : tier \in {"standard", "enhanced"}, client \in Clients}
    \cup
    {SustainedKeyOf(tier, client) : tier \in {"standard", "enhanced"}, client \in Clients}

\* the step is a quota-status request: the only steps that leave a response of
\* the view are CheckRates steps, and only the clock changes ticks
IsCheckRates ==
    /\ site_response'.op = "key_info"
    /\ ticks' = ticks

Reported == site_response.op = "key_info" /\ site_response.status = 200

ReportedClient == get_token_info(site_response.auth).client_id

\* C4: when nothing has been recorded yet under a client's burst or sustained
\* key, the quota status reports the count zero for that window, not a
\* missing value.
C4_ZeroWithoutHistory ==
    Reported =>
        /\ BurstKeyOf(site_response.rate_limit_model, ReportedClient) \notin DOMAIN cache
              => site_response.requests_this_minute = Num(0)
        /\ SustainedKeyOf(site_response.rate_limit_model, ReportedClient) \notin DOMAIN cache
              => site_response.requests_today = Num(0)

\* the number a reported count stands for (a missing count read as none)
CountValue(j) == IF j.null THEN 0 ELSE j.value

\* the recorded timestamps of a key that are inside the horizon at time t; a
\* timestamp leaves the stored list only once it is outside the horizon
InHorizon(c, key, t, horizon) ==
    Cardinality({i \in DOMAIN History(c, key) : t - History(c, key)[i] < horizon})

\* C5: the counts a quota-status request reports at time t' include a request
\* recorded at t exactly when t' - t is less than the horizon of the window
\* (a minute for the burst window, a day for the sustained one).
C5_SlidingWindowCounts ==
    [][(IsCheckRates /\ site_response'.status = 200)
          => LET tier == get_token_info(site_response'.auth).rate_limit_model
                 client == get_token_info(site_response'.auth).client_id
             IN  /\ CountValue(site_response'.requests_this_minute)
                       = InHorizon(cache, BurstKeyOf(tier, client), now, 60)
                 /\ CountValue(site_response'.requests_today)
                       = InHorizon(cache, SustainedKeyOf(tier, client), now, 86400)]_vars

\* C8: a quota-status request leaves every burst and sustained window as it
\* was, whatever its outcome, and a second quota-status request of the same
\* client with no request recorded in between reports the same counts.
C8_CheckRatesReadOnly ==
    [][IsCheckRates
          => /\ \A k \in WindowKeys : cache_get(cache', k) = cache_get(cache, k)
             /\ (/\ Reported
                 /\ site_response'.status = 200
                 /\ site_response'.auth = site_response.auth)
                   => /\ site_response'.requests_this_minute
                            = site_response.requests_this_minute
                      /\ site_response'.requests_today = site_response.requests_today]_vars

\* a quota-status request answered at the current time, after the clock has
\* advanced, for a client whose windows hold recorded requests
C8_Witness ==
    /\ Reported
    /\ site_response.auth = "tokB"
    /\ site_response.requests_this_minute = Num(2)
    /\ Len(History(cache, BurstKeyOf("enhanced", "c2"))) = 2
    /\ ticks > 0
    /\ Len(History(cache, "throttle_one_per_second_ip1")) = 1
    /\ History(cache, "throttle_one_per_second_ip1")[1] = now

\* what is stored under a key, as the response reports it
StoredCount(c, key) ==
    IF key \in DOMAIN c /\ Len(c[key]) > 0 THEN Num(Len(c[key])) ELSE Null

\* C9: a quota-status request that reaches the view is answered 403 Forbidden
\* exactly when it has no token or its token resolves to no client, else 500
\* exactly when the tier is neither standard nor enhanced, else 200 with the
\* counts stored under that client's keys of that tier's own scopes.  (The
\* windows are those of the time of the response: a request that records
\* leaves its own response.)
C9_CheckRatesOutcome ==
    (site_response.op = "key_info" /\ site_response.status # 429)
    => LET auth == site_response.auth
           tier == get_token_info(auth).rate_limit_model
           client == get_token_info(auth).client_id
           forbidden == auth = "" \/ client = ""
           known == tier \in {"standard", "enhanced"}
       IN  /\ site_response.status \in {200, 403, 500}
           /\ site_response.status = 403 <=> forbidden
           /\ site_response.status = 403 => site_response.data = "Forbidden"
           /\ site_response.status = 500 <=> (~forbidden /\ ~known)
           /\ site_response.status = 200
                 => /\ site_response.rate_limit_model = tier
                    /\ site_response.requests_this_minute
                          = StoredCount(cache, BurstKeyOf(tier, client))
                    /\ site_response.requests_today
                          = StoredCount(cache, SustainedKeyOf(tier, client))

\* the standard client is told its own counts while the enhanced client and
\* the enhanced scopes hold different ones
C9_Witness ==
    /\ Reported
    /\ site_response.auth = "tokA"
    /\ site_response.requests_this_minute = Num(1)
    /\ site_response.requests_today = Num(2)
    /\ Len(History(cache, BurstKeyOf("enhanced", "c2"))) = 2

----------------------------------------------------------------------------
(* Properties of the registration throttle *)

\* the registration requests of r before the i-th that were admitted less
\* than a day before it
AdmittedBefore(r, i) ==
    {j \in 1..(i - 1) : /\ regLog[r][j].status # 429
                        /\ regLog[r][i].time - regLog[r][j].time < 86400}

\* how often t is stored under the registration key of r
StoredAt(r, t) ==
    Cardinality({i \in DOMAIN History(cache, "throttle_three_per_day_" \o r) :
                    History(cache, "throttle_three_per_day_" \o r)[i] = t})

AdmittedAt(r, t) ==
    Cardinality({j \in DOMAIN regLog[r] :
                    regLog[r][j].status # 429 /\ regLog[r][j].time = t})

\* C7: of the registration requests of one requester, one is rejected by the
\* throttle exactly when three earlier ones were admitted within the 24 hours
\* before it (so the first three of a day pass and the fourth is rejected); a
\* rejected request creates no application and is not recorded in the window.
C7_ThreeRegistrationsPerDay ==
    \A r \in Requesters :
        /\ \A i \in DOMAIN regLog[r] :
              regLog[r][i].status = 429 <=> Cardinality(AdmittedBefore(r, i)) >= 3
        /\ \A i \in DOMAIN regLog[r] :
              (now - regLog[r][i].time < 86400)
                 => StoredAt(r, regLog[r][i].time) = AdmittedAt(r, regLog[r][i].time)
        /\ applications
              = Cardinality({<<q, j>> \in Requesters \X (1..MaxRegistrationRequests) :
                                j \in DOMAIN regLog[q] /\ regLog[q][j].status = 201})

\* three requests admitted and the fourth of the same day rejected
C7_Witness ==
    /\ Len(regLog["ip1"]) = 4
    /\ \A i \in 1..3 : regLog["ip1"][i].status = 201
    /\ regLog["ip1"][4].status = 429
    /\ regLog["ip1"][4].time - regLog["ip1"][1].time = 86399
    /\ applications = 3
    /\ Len(History(cache, "throttle_three_per_day_ip1")) = 3

----------------------------------------------------------------------------
(* Properties of concurrent requests *)

Passed(view) ==
    {p \in DOMAIN procs : procs[p].view = view
                          /\ procs[p].pc \in {"admitted", "handler", "done"}}

====
